---- MODULE Spec2Model ----
(***************************************************************************)
(* Crisis risk assessment of the wellness chat application:               *)
(*   utils/crisis_detection.py  (CrisisDetector)                          *)
(*   utils/gemini_client.py     (GeminiClient)                            *)
(*   components/chat_interface.py (one run of the chat page)              *)
(*                                                                         *)
(* Python strings that the code inspects (lower(), regex search, dict     *)
(* keys of _CANON_LEVELS) are sequences of one-character strings.         *)
(* Strings the code only passes around are TLA+ strings.                  *)
(***************************************************************************)
EXTENDS Integers, Sequences, FiniteSets, TLC

VARIABLES
    pc,               \* position in the page run / detector call sequence
    user_input,       \* the message text
    gemini_client,    \* TRUE iff CrisisDetector.gemini_client is set
    data_manager,     \* session data_manager: "absent", "ok", "log_raises"
    api,              \* what the external classifier call did in this run
    risk_assessment,  \* the verdict returned by analyze_text_for_crisis
    crisis_detected,  \* value returned by trigger_crisis_intervention
    ai_response,      \* the assistant reply being built
    chat_history,     \* st.session_state.chat_history
    ui,               \* what was written to the Streamlit page, in order
    log_calls,        \* tags passed to data_manager.log_crisis_event
    exc               \* exception that escaped to the page run, or "none"

vars == <<pc, user_input, gemini_client, data_manager, api, risk_assessment,
          crisis_detected, ai_response, chat_history, ui, log_calls, exc>>

(***************************************************************************)
(* Bounds of the model                                                     *)
(***************************************************************************)
\* number of fragments a message text is put together from
MaxFragments == 3

(***************************************************************************)
(* Python str: lower(), \w, str()                                          *)
(***************************************************************************)
UpperToLower ==
    [A |-> "a", B |-> "b", C |-> "c", D |-> "d", E |-> "e", F |-> "f",
     G |-> "g", H |-> "h", I |-> "i", J |-> "j", K |-> "k", L |-> "l",
     M |-> "m", N |-> "n", O |-> "o", P |-> "p", Q |-> "q", R |-> "r",
     S |-> "s", T |-> "t", U |-> "u", V |-> "v", W |-> "w", X |-> "x",
     Y |-> "y", Z |-> "z"]

LowerLetters == {UpperToLower[c] : c \in DOMAIN UpperToLower}

Digits == {"0", "1", "2", "3", "4", "5", "6", "7", "8", "9"}

\* one character of str.lower()
LowerChar(c) == IF c \in DOMAIN UpperToLower THEN UpperToLower[c] ELSE c

\* str.lower()
str_lower(s) == [i \in 1..Len(s) |-> LowerChar(s[i])]

\* the regex class \w
IsWordChar(c) == c \in LowerLetters \cup DOMAIN UpperToLower \cup Digits \cup {"_"}

\* the regex assertion \b at the gap before position p (1-based) of text
WordBoundary(text, p) ==
    LET before == p - 1 >= 1 /\ p - 1 <= Len(text) /\ IsWordChar(text[p - 1])
        after  == p >= 1 /\ p <= Len(text) /\ IsWordChar(text[p])
    IN  before # after

\* re.search(r'\b' + re.escape(keyword) + r'\b', text) finds a match
re_search_word(keyword, text) ==
    \E i \in 1..(Len(text) - Len(keyword) + 1) :
        /\ SubSeq(text, i, i + Len(keyword) - 1) = keyword
        /\ WordBoundary(text, i)
        /\ WordBoundary(text, i + Len(keyword))

(***************************************************************************)
(* Tier labels                                                             *)
(***************************************************************************)
S_low      == <<"l", "o", "w">>
S_moderate == <<"m", "o", "d", "e", "r", "a", "t", "e">>
S_high     == <<"h", "i", "g", "h">>
S_critical == <<"c", "r", "i", "t", "i", "c", "a", "l">>
S_severe   == <<"s", "e", "v", "e", "r", "e">>
U_LOW      == <<"L", "O", "W">>
U_MODERATE == <<"M", "O", "D", "E", "R", "A", "T", "E">>
U_HIGH     == <<"H", "I", "G", "H">>
U_CRITICAL == <<"C", "R", "I", "T", "I", "C", "A", "L">>
U_SEVERE   == <<"S", "E", "V", "E", "R", "E">>

\* the dict literal _CANON_LEVELS, as its (key, value) items
_CANON_LEVELS ==
    << <<S_low, U_LOW>>,
       <<S_moderate, U_MODERATE>>,
       <<S_high, U_HIGH>>,
       <<S_critical, U_CRITICAL>>,
       <<S_severe, U_CRITICAL>>,
       <<U_SEVERE, U_CRITICAL>>,
       <<U_LOW, U_LOW>>,
       <<U_MODERATE, U_MODERATE>>,
       <<U_HIGH, U_HIGH>> >>

\* dict.get(key, default) on a dict given by its items
dict_get(items, key, default) ==
    IF \E i \in 1..Len(items) : items[i][1] = key
    THEN LET i == CHOOSE j \in 1..Len(items) : items[j][1] = key IN items[i][2]
    ELSE default

(***************************************************************************)
(* Lexicon (utils/crisis_keywords.py)                                      *)
(***************************************************************************)
P_hopeless   == <<"h", "o", "p", "e", "l", "e", "s", "s">>
P_no_hope    == <<"n", "o", " ", "h", "o", "p", "e">>
P_tired      == <<"t", "i", "r", "e", "d">>
P_end_it_all == <<"e", "n", "d", " ", "i", "t", " ", "a", "l", "l">>
P_harm       == <<"h", "a", "r", "m">>

\* category -> phrases, in iteration order
CRISIS_KEYWORDS ==
    << <<"suicidal_ideation", <<P_end_it_all>> >>,
       <<"self_harm",         <<P_harm>> >>,
       <<"hopelessness",      <<P_hopeless, P_no_hope>> >>,
       <<"distress",          <<P_tired>> >> >>

\* category -> weight; "distress" has no entry
SEVERITY_WEIGHTS ==
    [suicidal_ideation |-> 6, self_harm |-> 8, hopelessness |-> 2]

(***************************************************************************)
(* CrisisDetector._keyword_based_detection                                 *)
(***************************************************************************)
\* self.severity_weights.get(category, 1)
weight_of(category) ==
    IF category \in DOMAIN SEVERITY_WEIGHTS THEN SEVERITY_WEIGHTS[category] ELSE 1

\* the (keyword, category) pairs in the order the two loops visit them
RECURSIVE lexicon_pairs(_, _)
lexicon_pairs(c, k) ==
    IF c > Len(CRISIS_KEYWORDS) THEN <<>>
    ELSE IF k > Len(CRISIS_KEYWORDS[c][2]) THEN lexicon_pairs(c + 1, 1)
    ELSE << <<CRISIS_KEYWORDS[c][2][k], CRISIS_KEYWORDS[c][1]>> >>
         \o lexicon_pairs(c, k + 1)

\* detected_keywords after the loops
detected_keywords_of(text_lower) ==
    SelectSeq(lexicon_pairs(1, 1), LAMBDA p : re_search_word(p[1], text_lower))

\* total_score after the loops
RECURSIVE total_score_of(_)
total_score_of(detected) ==
    IF detected = <<>> THEN 0
    ELSE weight_of(Head(detected)[2]) + total_score_of(Tail(detected))

CriticalScore == 10
HighScore     == 6
ModerateScore == 3

score_to_level_off_by_one(total_score) ==
    IF total_score > CriticalScore THEN S_critical
    ELSE IF total_score > HighScore THEN S_high
    ELSE IF total_score > ModerateScore THEN S_moderate
    ELSE S_low

\* the if/elif chain mapping the score to a level
score_to_level(total_score) ==
    IF total_score >= CriticalScore THEN S_critical
    ELSE IF total_score >= HighScore THEN S_high
    ELSE IF total_score >= ModerateScore THEN S_moderate
    ELSE S_low

_keyword_based_detection(text) ==
    LET text_lower == str_lower(text)
        detected   == detected_keywords_of(text_lower)
        total      == total_score_of(detected)
    IN  [risk_level        |-> score_to_level(total),
         score             |-> total,
         detected_keywords |-> detected,
         method            |-> "keyword_analysis"]

(***************************************************************************)
(* Python values: JSON documents, dicts, None                              *)
(***************************************************************************)
None == [type |-> "null"]

JNum(n) == [type |-> "number", n |-> n]

\* a str whose characters the code inspects
JStr(chars) == [type |-> "string", s |-> chars]

\* a str the code only passes around
JText(t) == [type |-> "string", text |-> t]

JList(items) == [type |-> "list", items |-> items]

\* a dict, as a function from its keys
JObj(d) == [type |-> "object", dict |-> d]

S_None == <<"N", "o", "n", "e">>

\* str(value) for the values a risk_level field takes (numbers: one digit)
py_str(v) ==
    IF v.type = "string" THEN v.s
    ELSE IF v.type = "null" THEN S_None
    ELSE <<ToString(v.n)>>

\* a Python str holding a document: well-formed JSON of value val, or not JSON
Document(wf, val) == [type |-> "str", wf |-> wf, val |-> val]

\* any str that is not JSON: str(None), a repr, free prose
NotJson == Document(FALSE, None)

\* a non-str object (candidates[0].content)
ContentObject == [type |-> "content"]

(***************************************************************************)
(* GeminiClient                                                            *)
(***************************************************************************)
\* what st.error / st.code write when the API call throws
GeminiErrorBanner == "error: GEMINI API ERROR"
GeminiTraceback   == "code: traceback"

\* _generate_content: the response object, or None after a swallowed
\* exception, with what it wrote to the page
_generate_content(call) ==
    IF call.kind = "throws"
    THEN [ret |-> None, ui |-> <<GeminiErrorBanner, GeminiTraceback>>]
    ELSE [ret |-> [type |-> "response", kind |-> call.kind, doc |-> call.doc],
          ui  |-> <<>>]

\* _extract_text
_extract_text(response) ==
    IF response.type = "null" THEN NotJson
    ELSE IF response.kind = "text" THEN response.doc
    ELSE IF response.kind = "candidate_content" THEN ContentObject
    ELSE NotJson

\* json.loads
json_loads(text) ==
    IF text.type # "str" THEN [raised |-> "TypeError", value |-> None]
    ELSE IF ~text.wf THEN [raised |-> "JSONDecodeError", value |-> None]
    ELSE [raised |-> "none", value |-> text.val]

parse_fallback_low ==
    JObj([risk_level       |-> JStr(U_LOW),
          keywords_detected |-> JList(<<"system_error">>),
          analysis          |-> JText("Could not parse AI crisis response.")])

\* the dict returned on json.JSONDecodeError
parse_fallback ==
    JObj([risk_level       |-> JStr(U_MODERATE),
          keywords_detected |-> JList(<<"system_error">>),
          analysis          |-> JText("Could not parse AI crisis response.")])

\* GeminiClient.analyze_text_for_crisis
GeminiClient_analyze_text_for_crisis(call) ==
    LET g      == _generate_content(call)
        text   == _extract_text(g.ret)
        loaded == json_loads(text)
    IN  IF loaded.raised = "JSONDecodeError"
        THEN [raised |-> "none", value |-> parse_fallback, ui |-> g.ui]
        ELSE [raised |-> loaded.raised, value |-> loaded.value, ui |-> g.ui]

(***************************************************************************)
(* CrisisDetector._combine_risk_assessments                                *)
(***************************************************************************)
order == <<S_low, S_moderate, S_high, S_critical>>

\* order.index(level) inside try/except ValueError: 0-based, 0 when absent
index_or_zero(level) ==
    IF \E i \in 1..Len(order) : order[i] = level
    THEN (CHOOSE i \in 1..Len(order) : order[i] = level) - 1
    ELSE 0

ai_level_of_exact_key(raw_ai) ==
    str_lower(dict_get(_CANON_LEVELS, py_str(raw_ai), U_LOW))

\* ai_level: the normalised classifier label
ai_level_of(raw_ai) ==
    str_lower(dict_get(_CANON_LEVELS, str_lower(py_str(raw_ai)),
                       dict_get(_CANON_LEVELS, py_str(raw_ai), U_LOW)))

int_max(a, b) == IF a >= b THEN a ELSE b

requires_intervention_critical_only(combined_level) ==
    combined_level \in {S_critical}

\* combined_level in ["high", "critical"]
requires_intervention_of(combined_level) ==
    combined_level \in {S_high, S_critical}

\* combined_level == "critical"
immediate_crisis_of(combined_level) == combined_level = S_critical

\* dict.get(key, default) on a dict given as a function
get(d, key, default) == IF key \in DOMAIN d THEN d[key] ELSE default

_combine_risk_assessments(keyword_risk, ai_analysis) ==
    IF ai_analysis.type # "object"
    THEN [raised |-> "AttributeError", value |-> None]
    ELSE
    LET raw_ai   == get(ai_analysis.dict, "risk_level", JStr(U_LOW))
        ai_level == ai_level_of(raw_ai)
        a_idx    == index_or_zero(ai_level)
        k_idx    == index_or_zero(get(keyword_risk, "risk_level", S_low))
        base     == order[int_max(a_idx, k_idx) + 1]
        combined_level ==
            IF \/ get(keyword_risk, "risk_level", None) = S_critical
               \/ str_lower(py_str(raw_ai)) \in {S_critical, S_severe}
            THEN S_critical
            ELSE base
    IN  [raised |-> "none",
         value  |-> [final_risk_level      |-> combined_level,
                     keyword_analysis      |-> keyword_risk,
                     ai_analysis           |-> ai_analysis,
                     requires_intervention |-> requires_intervention_of(combined_level),
                     immediate_crisis      |-> immediate_crisis_of(combined_level)]]

(***************************************************************************)
(* CrisisDetector.analyze_text_for_crisis                                  *)
(***************************************************************************)
\* the dict substituted when the client call raises
ai_error_fallback ==
    JObj([risk_level       |-> JStr(U_MODERATE),
          keywords_detected |-> JList(<<>>),
          analysis          |-> JText("AI error")])

\* the dict substituted when there is no client
ai_unavailable ==
    JObj([risk_level       |-> JStr(U_LOW),
          keywords_detected |-> JList(<<>>),
          analysis          |-> JText("AI client unavailable.")])

analyze_text_for_crisis(text, client, call) ==
    LET keyword_risk == _keyword_based_detection(text)
        r            == GeminiClient_analyze_text_for_crisis(call)
        ai_analysis  == IF client
                        THEN IF r.raised # "none" THEN ai_error_fallback ELSE r.value
                        ELSE ai_unavailable
        combined     == _combine_risk_assessments(keyword_risk, ai_analysis)
    IN  [raised |-> combined.raised,
         value  |-> combined.value,
         ui     |-> IF client THEN r.ui ELSE <<>>]

(***************************************************************************)
(* CrisisDetector.trigger_crisis_intervention and the two banners          *)
(***************************************************************************)
ImmediateBanner == "error: IMMEDIATE CRISIS RESOURCES"
SupportBanner   == "warning: We're here to support you"

intervention_branch_requires_first(assessment) ==
    IF get(assessment, "requires_intervention", FALSE) THEN "support"
    ELSE IF get(assessment, "immediate_crisis", FALSE) THEN "immediate"
    ELSE "none"

\* the if/elif of trigger_crisis_intervention
intervention_branch(assessment) ==
    IF get(assessment, "immediate_crisis", FALSE) THEN "immediate"
    ELSE IF get(assessment, "requires_intervention", FALSE) THEN "support"
    ELSE "none"

\* log_crisis_event(tag) is called iff session data_manager is set; what it
\* raises is swallowed
log_crisis_event_calls(dm, tag) == IF dm # "absent" THEN <<tag>> ELSE <<>>

(***************************************************************************)
(* CrisisDetector.get_crisis_follow_up_message                             *)
(***************************************************************************)
CriticalFollowUp == "I'm really concerned about you right now. Please reach out to crisis resources. Would you like grounding exercises?"
HighFollowUp     == "I hear you're struggling - would you like to try some coping strategies together?"
ModerateFollowUp == "Thanks for sharing. Would you like to work through coping techniques?"
LowFollowUp      == "Thank you for sharing. I'm here to listen. What would be most helpful for you?"

get_crisis_follow_up_message(risk_level) ==
    IF risk_level \in {S_critical, U_CRITICAL} THEN CriticalFollowUp
    ELSE IF risk_level \in {S_high, U_HIGH} THEN HighFollowUp
    ELSE IF risk_level \in {S_moderate, U_MODERATE} THEN ModerateFollowUp
    ELSE LowFollowUp

(***************************************************************************)
(* Inputs: message texts and outcomes of the external calls                *)
(***************************************************************************)
W_harmony  == <<"h", "a", "r", "m", "o", "n", "y">>
W_Hopeless == <<"H", "o", "p", "e", "l", "e", "s", "s">>

Fragments ==
    {W_Hopeless, P_no_hope, P_tired, P_end_it_all, P_harm, W_harmony}

\* texts of at most n fragments joined by single spaces; <<>> is the empty text
RECURSIVE TextsUpTo(_)
TextsUpTo(n) ==
    IF n = 0 THEN {<<>>}
    ELSE LET shorter == TextsUpTo(n - 1)
         IN  shorter \cup Fragments
             \cup {t \o <<" ">> \o f : t \in shorter \ {<<>>}, f \in Fragments}

Texts == TextsUpTo(MaxFragments)

M_Moderate == <<"M", "o", "d", "e", "r", "a", "t", "e">>
M_Severe   == <<"S", "e", "v", "e", "r", "e">>
S_urgent   == <<"u", "r", "g", "e", "n", "t">>

\* strings a classifier may put in risk_level
Labels ==
    {S_low, U_LOW, S_moderate, M_Moderate, S_high, U_HIGH, S_critical,
     U_CRITICAL, S_severe, U_SEVERE, M_Severe, S_urgent}

\* values of the risk_level field
RiskValues == {JStr(l) : l \in Labels} \cup {None, JNum(3)}

\* JSON values a response text may hold
JsonValues ==
    {JObj([risk_level |-> v]) : v \in RiskValues}
    \cup {JObj(<<>>), JList(<<>>), JStr(U_HIGH), JNum(3), None}

Documents == {NotJson} \cup {Document(TRUE, v) : v \in JsonValues}

NoCall == [kind |-> "not_called", doc |-> NotJson]

\* outcomes of client.models.generate_content for the crisis prompt
ApiCalls ==
    {[kind |-> "throws", doc |-> NotJson],
     [kind |-> "candidate_content", doc |-> NotJson],
     [kind |-> "opaque", doc |-> NotJson]}
    \cup {[kind |-> "text", doc |-> d] : d \in Documents}

\* outcomes of get_empathetic_response
ReplyCalls == {"raises", "throws", "text", "candidate_content"}

(***************************************************************************)
(* State                                                                   *)
(***************************************************************************)
ApologyReply == "I'm having trouble responding right now. Please try again."

Reply(body, follow_up) == [type |-> "reply", body |-> body, follow_up |-> follow_up]

InitCommon ==
    /\ gemini_client \in BOOLEAN
    /\ api = NoCall
    /\ risk_assessment = None
    /\ crisis_detected = FALSE
    /\ ai_response = None
    /\ chat_history = <<>>
    /\ ui = <<>>
    /\ log_calls = <<>>
    /\ exc = "none"

\* a run of the chat page: the page dereferences data_manager unconditionally
Init ==
    /\ InitCommon
    /\ pc = "input"
    /\ user_input = <<>>
    /\ data_manager \in {"ok", "log_raises"}

\* a caller of the detector's interface: analyze, then trigger
InitDetector ==
    /\ InitCommon
    /\ pc = "analyze"
    /\ user_input \in Texts
    /\ data_manager \in {"absent", "ok", "log_raises"}

(***************************************************************************)
(* Steps                                                                   *)
(***************************************************************************)
\* chat_interface.py 11-20: a non-empty message arrives and is recorded
UserInput ==
    /\ pc = "input"
    /\ \E text \in Texts \ {<<>>} : 
         /\ user_input' = text
         /\ chat_history' = Append(chat_history, [role |-> "user", content |-> text])
    /\ pc' = "analyze"
    /\ UNCHANGED <<gemini_client, data_manager, api, risk_assessment,
                   crisis_detected, ai_response, ui, log_calls, exc>>

\* chat_interface.py 23: crisis_detector.analyze_text_for_crisis(user_input)
Analyze ==
    /\ pc = "analyze"
    /\ \E call \in (IF gemini_client THEN ApiCalls ELSE {NoCall}) :
         LET r == analyze_text_for_crisis(user_input, gemini_client, call)
         IN  /\ api' = call
             /\ ui' = ui \o r.ui
             /\ IF r.raised # "none"
                THEN /\ exc' = r.raised
                     /\ pc' = "crashed"
                     /\ UNCHANGED risk_assessment
                ELSE /\ risk_assessment' = r.value
                     /\ pc' = "trigger"
                     /\ UNCHANGED exc
    /\ UNCHANGED <<user_input, gemini_client, data_manager, crisis_detected,
                   ai_response, chat_history, log_calls>>

\* chat_interface.py 24: crisis_detector.trigger_crisis_intervention(risk_assessment)
Trigger ==
    /\ pc = "trigger"
    /\ LET branch == intervention_branch(risk_assessment)
       IN  /\ ui' = IF branch = "immediate" THEN Append(ui, ImmediateBanner)
                    ELSE IF branch = "support" THEN Append(ui, SupportBanner)
                    ELSE ui
           /\ log_calls' = IF branch = "none" THEN log_calls
                           ELSE log_calls \o log_crisis_event_calls(data_manager, branch)
    /\ crisis_detected' = get(risk_assessment, "requires_intervention", FALSE)
    /\ pc' = "generate"
    /\ UNCHANGED <<user_input, gemini_client, data_manager, api, risk_assessment,
                   ai_response, chat_history, exc>>

\* chat_interface.py 27-45: show the user message, build the reply
Generate ==
    /\ pc = "generate"
    /\ \E call \in (IF gemini_client THEN ReplyCalls ELSE {"raises"}) :
         LET g    == _generate_content([kind |-> call, doc |-> NotJson])
             body == IF call = "throws" THEN "None"
                     ELSE IF call = "text" THEN "generated"
                     ELSE "content object"
             follow_up == get_crisis_follow_up_message(risk_assessment.final_risk_level)
         IN  IF call = "raises"
             THEN /\ ai_response' = Reply(ApologyReply, "")
                  /\ ui' = Append(ui, "chat: user")
             ELSE /\ ui' = Append(ui, "chat: user") \o g.ui
                  /\ ai_response' =
                        IF ~crisis_detected THEN Reply(body, "")
                        ELSE IF call = "candidate_content" THEN Reply(ApologyReply, "")
                        ELSE Reply(body, follow_up)
    /\ pc' = "deliver"
    /\ UNCHANGED <<user_input, gemini_client, data_manager, api, risk_assessment,
                   crisis_detected, chat_history, log_calls, exc>>

\* chat_interface.py 47-57: record and show the reply
Deliver ==
    /\ pc = "deliver"
    /\ chat_history' = Append(chat_history, [role |-> "assistant", content |-> ai_response])
    /\ ui' = Append(ui, "chat: assistant")
    /\ pc' = "done"
    /\ UNCHANGED <<user_input, gemini_client, data_manager, api, risk_assessment,
                   crisis_detected, ai_response, log_calls, exc>>

Next == UserInput \/ Analyze \/ Trigger \/ Generate \/ Deliver

Spec == Init /\ [][Next]_vars

NextDetector == Analyze \/ Trigger

SpecDetector == InitDetector /\ [][NextDetector]_vars

(***************************************************************************)
(* Vocabulary of the properties                                            *)
(***************************************************************************)
\* analyze_text_for_crisis has returned a verdict
VerdictReturned == pc \in {"trigger", "generate", "deliver", "done"}

\* analyze_text_for_crisis has just returned a verdict
VerdictFresh == pc = "trigger"

\* analyze_text_for_crisis has just returned or raised
AnalysisOver == pc \in {"trigger", "crashed"}

\* ordinal of a tier in LOW < MODERATE < HIGH < CRITICAL
TierOrdinal(level) ==
    CASE level = S_low -> 0
      [] level = S_moderate -> 1
      [] level = S_high -> 2
      [] level = S_critical -> 3

\* the tier a label stands for: case-insensitive, severe is an alias of
\* critical, anything unrecognised is LOW
NormalizedOrdinal(label) ==
    LET l == str_lower(label)
    IN  IF l = S_moderate THEN 1
        ELSE IF l = S_high THEN 2
        ELSE IF l \in {S_critical, S_severe} THEN 3
        ELSE 0

AcceptedLabel(label) ==
    str_lower(label) \in {S_low, S_moderate, S_high, S_critical, S_severe}

\* the label the combiner read from the semantic assessment
RawSemanticLabel ==
    py_str(get(risk_assessment.ai_analysis.dict, "risk_level", JStr(U_LOW)))

KeywordLevel == risk_assessment.keyword_analysis.risk_level

FinalOrdinal == TierOrdinal(risk_assessment.final_risk_level)

EscalationFires ==
    \/ KeywordLevel = S_critical
    \/ str_lower(RawSemanticLabel) \in {S_critical, S_severe}

\* the banners of the intervention policy shown so far
ShownActions == SelectSeq(ui, LAMBDA w : w \in {ImmediateBanner, SupportBanner})

(***************************************************************************)
(* C1                                                                      *)
(***************************************************************************)
\* C1: the final tier of a verdict is at least the maximum of the keyword
\* tier and the normalised semantic tier; it equals that maximum unless the
\* escalation override fires, and then it is CRITICAL; a semantic label
\* "severe" in any casing with keyword tier LOW gives CRITICAL.
C1_CombinerMonotone ==
    VerdictFresh =>
        LET k == TierOrdinal(KeywordLevel)
            a == NormalizedOrdinal(RawSemanticLabel)
        IN  /\ FinalOrdinal >= int_max(k, a)
            /\ (~EscalationFires => FinalOrdinal = int_max(k, a))
            /\ (EscalationFires => FinalOrdinal = 3)
            /\ (str_lower(RawSemanticLabel) = S_severe /\ k = 0 => FinalOrdinal = 3)

C1_Witness ==
    /\ pc = "trigger"
    /\ RawSemanticLabel = M_Severe
    /\ KeywordLevel = S_low
    /\ risk_assessment.final_risk_level = S_critical

(***************************************************************************)
(* C2                                                                      *)
(***************************************************************************)
\* C2: with a classifier configured, when the external call throws (swallowed
\* in _generate_content) or GeminiClient.analyze_text_for_crisis raises,
\* analyze_text_for_crisis returns normally, the semantic assessment of the
\* verdict has tier MODERATE and the final tier is at least MODERATE.
C2_FallbackOnThrow ==
    (AnalysisOver /\ gemini_client /\ api.kind \in {"throws", "candidate_content"}) =>
        /\ exc = "none"
        /\ VerdictReturned
        /\ RawSemanticLabel = U_MODERATE
        /\ FinalOrdinal >= 1

C2_Witness ==
    /\ pc = "trigger"
    /\ gemini_client
    /\ api.kind = "throws"
    /\ KeywordLevel = S_low
    /\ risk_assessment.final_risk_level = S_moderate

(***************************************************************************)
(* C3                                                                      *)
(***************************************************************************)
UnparseablePayload(doc) ==
    \/ ~doc.wf
    \/ doc.val.type # "object"
    \/ "risk_level" \notin DOMAIN doc.val.dict

\* C3: when the call succeeds with a payload that is not the expected
\* structure (not JSON, JSON that is not an object, an object without
\* risk_level), the semantic assessment used by the combiner has tier
\* MODERATE and the final tier is at least MODERATE.
C3_FallbackOnUnparseable ==
    (AnalysisOver /\ gemini_client /\ api.kind = "text" /\ UnparseablePayload(api.doc)) =>
        /\ VerdictReturned
        /\ RawSemanticLabel = U_MODERATE
        /\ FinalOrdinal >= 1

(***************************************************************************)
(* C4                                                                      *)
(***************************************************************************)
\* C4: for every text and every classifier outcome analyze_text_for_crisis
\* raises nothing and returns a verdict whose final tier is one of the four.
C4_AnalyzeTotal ==
    AnalysisOver =>
        /\ exc = "none"
        /\ VerdictReturned
        /\ risk_assessment.final_risk_level \in {S_low, S_moderate, S_high, S_critical}

(***************************************************************************)
(* C5                                                                      *)
(***************************************************************************)
\* C5: in every verdict requires_intervention is true iff the final tier is
\* HIGH or CRITICAL, immediate_crisis is true iff it is CRITICAL, and so
\* immediate_crisis implies requires_intervention.
C5_VerdictFlags ==
    VerdictFresh =>
        /\ risk_assessment.requires_intervention <=> FinalOrdinal \in {2, 3}
        /\ risk_assessment.immediate_crisis <=> FinalOrdinal = 3
        /\ risk_assessment.immediate_crisis => risk_assessment.requires_intervention

C5_Witness ==
    /\ pc = "trigger"
    /\ risk_assessment.final_risk_level = S_high
    /\ risk_assessment.requires_intervention
    /\ ~risk_assessment.immediate_crisis

(***************************************************************************)
(* C6                                                                      *)
(***************************************************************************)
\* the lexicon (category, phrase) pairs that match the lower-cased text
MatchingPairs ==
    {cp \in UNION {{<<CRISIS_KEYWORDS[c][1], CRISIS_KEYWORDS[c][2][k]>> :
                        k \in 1..Len(CRISIS_KEYWORDS[c][2])} :
                    c \in 1..Len(CRISIS_KEYWORDS)} :
        re_search_word(cp[2], str_lower(user_input))}

RECURSIVE SumOfWeights(_)
SumOfWeights(pairs) ==
    IF pairs = {} THEN 0
    ELSE LET cp == CHOOSE x \in pairs : TRUE
         IN  weight_of(cp[1]) + SumOfWeights(pairs \ {cp})

\* C6: the keyword score is the sum of the category weights of the matching
\* (category, phrase) pairs, and the tier has exact inclusive lower bounds:
\* >= 10 CRITICAL, 6..9 HIGH, 3..5 MODERATE, below 3 LOW; no match scores 0
\* and is LOW.
C6_ScoreThresholds ==
    VerdictFresh =>
        LET kr == risk_assessment.keyword_analysis
        IN  /\ kr.score = SumOfWeights(MatchingPairs)
            /\ (kr.score >= 10 <=> kr.risk_level = S_critical)
            /\ (kr.score >= 6 /\ kr.score < 10 <=> kr.risk_level = S_high)
            /\ (kr.score >= 3 /\ kr.score < 6 <=> kr.risk_level = S_moderate)
            /\ (kr.score < 3 <=> kr.risk_level = S_low)
            /\ (MatchingPairs = {} => kr.score = 0 /\ kr.risk_level = S_low)

C6_Witness ==
    /\ pc = "trigger"
    /\ risk_assessment.keyword_analysis.score = 10
    /\ risk_assessment.keyword_analysis.risk_level = S_critical

(***************************************************************************)
(* C7                                                                      *)
(***************************************************************************)
\* C7: for accepted labels a and b, combining keyword label a with semantic
\* label b gives the same final tier as combining keyword label b with
\* semantic label a.
C7_CombinerSymmetric ==
    (VerdictFresh /\ AcceptedLabel(RawSemanticLabel)) =>
        LET swapped == _combine_risk_assessments(
                           [risk_level |-> RawSemanticLabel],
                           JObj([risk_level |-> JStr(KeywordLevel)]))
        IN  /\ swapped.raised = "none"
            /\ swapped.value.final_risk_level = risk_assessment.final_risk_level

(***************************************************************************)
(* C8                                                                      *)
(***************************************************************************)
\* C8: for a verdict of the combiner, trigger_crisis_intervention takes
\* exactly one action chosen by the final tier (CRITICAL: the immediate
\* banner, log tag "immediate"; HIGH: the support banner, log tag "support";
\* LOW or MODERATE: nothing shown, nothing logged); the log is called iff a
\* data_manager is present, its failure changes neither the action nor the
\* returned value, and the returned value is the verdict's
\* requires_intervention.
C8_InterventionByTier ==
    pc = "generate" =>
        LET expected == CASE FinalOrdinal = 3 -> <<ImmediateBanner, "immediate">>
                          [] FinalOrdinal = 2 -> <<SupportBanner, "support">>
                          [] OTHER -> <<>>
        IN  /\ exc = "none"
            /\ crisis_detected = risk_assessment.requires_intervention
            /\ IF expected = <<>>
               THEN ShownActions = <<>> /\ log_calls = <<>>
               ELSE /\ ShownActions = <<expected[1]>>
                    /\ log_calls = IF data_manager = "absent" THEN <<>>
                                   ELSE <<expected[2]>>

C8_Witness ==
    /\ pc = "generate"
    /\ data_manager = "log_raises"
    /\ risk_assessment.final_risk_level = S_critical
    /\ ShownActions = <<ImmediateBanner>>
    /\ log_calls = <<"immediate">>
    /\ crisis_detected

(***************************************************************************)
(* C9                                                                      *)
(***************************************************************************)
\* C9: every turn ends with an assistant reply delivered to the user, and
\* when the verdict requires intervention the reply carries the follow-up
\* message of the final tier, also when the reply is the generic apology.
C9_ReplyWithFollowUp ==
    pc \in {"done", "crashed"} =>
        /\ pc = "done"
        /\ chat_history # <<>>
        /\ chat_history[Len(chat_history)].role = "assistant"
        /\ "chat: assistant" \in {ui[i] : i \in 1..Len(ui)}
        /\ risk_assessment.requires_intervention =>
              ai_response.follow_up =
                  get_crisis_follow_up_message(risk_assessment.final_risk_level)

(***************************************************************************)
(* C10                                                                     *)
(***************************************************************************)
\* C10: when the risk-assessment path has run, nothing it wrote to the page
\* is a raw internal error: no error banner of the API failure and no
\* traceback.
C10_NoRawErrorShown ==
    pc \in {"trigger", "crashed"} =>
        \A i \in 1..Len(ui) : ui[i] \notin {GeminiErrorBanner, GeminiTraceback}

====
